---- MODULE Spec2Model ----
(***************************************************************************)
(* The agent control loop of run.py (main, call_gemini_api, format_msg)    *)
(* as a state machine.  Texts are sequences of tokens; the marker words of *)
(* `pattern` are tokens of their own, so re.split, `in` and strip are      *)
(* computed on token sequences.                                            *)
(***************************************************************************)
EXTENDS Integers, Sequences, FiniteSets, TLC

\* ---------------------------------------------------------------- bounds
MaxIter == 3
MaxReflection == 1
MaxTasks == 2
MaxImgs == 1
TokenCap == 2
HistCap == 2
MaxHeight == 6

\* ------------------------------------------------------ program constants
MaxRetries == 3
DefaultWindowHeight == 768
RetryDelay == 5

activate_EGA == TRUE

NoReply == <<"<none>">>
NoExc == "none"

FormatErrorMsg == "Format ERROR: Both 'Thought' and 'Action' should be included in your reply."
ExecFailMsg == "The action you have chosen cannot be exected."
PdfPrefix == "You downloaded a PDF file"
TypeWarnMsg == "note: The web element you're trying to type may not be a textbox"

\* ------------------------------------------------------------------ text
Markers == {"Thought:", "Action:", "Observation:", "Errors:", "Explanation:"}

\* re.split(pattern, s): the segments between the marker words
RECURSIVE ReSplit(_)
ReSplit(s) ==
    IF s = <<>> THEN << <<>> >>
    ELSE LET rest == ReSplit(Tail(s)) IN
         IF Head(s) \in Markers THEN << <<>> >> \o rest
         ELSE << <<Head(s)>> \o Head(rest) >> \o Tail(rest)

\* str.strip(): drop leading and trailing whitespace tokens
RECURSIVE LStrip(_)
LStrip(s) == IF s # <<>> /\ Head(s) = " " THEN LStrip(Tail(s)) ELSE s

RECURSIVE RStrip(_)
RStrip(s) == IF s # <<>> /\ s[Len(s)] = " " THEN RStrip(SubSeq(s, 1, Len(s) - 1)) ELSE s

Strip(s) == RStrip(LStrip(s))

\* `tok in text`
Contains(s, tok) == \E i \in 1..Len(s) : s[i] = tok

\* Python list[i] is defined iff i < len(list)
HasIndex(l, i) == i + 1 <= Len(l)
PyAt(l, i) == l[i + 1]

\* ------------------------------------------------------------- collaborators
\* replies of the reasoning service to the main prompt
MainReplies ==
    { <<"Thought:", "t1", "Action:", "Click", "[1]">>,
      <<"Thought:", "t2", "Action:", "Type", "[1]", "hi">>,
      <<"Thought:", "t1", "Action:", "Scroll", "[WINDOW]", "down">>,
      <<"Thought:", "t2", "Action:", "Scroll", "[WINDOW]", "up">>,
      <<"Thought:", "t2", "Action:", "Wait">>,
      <<"Thought:", "t1", "Action:", "GoBack">>,
      <<"Thought:", "t2", "Action:", "Google">>,
      <<"Thought:", "t1", "Action:", "ANSWER", "42">>,
      <<"Thought:", "t2", "Action:", "Foo">>,
      <<"Thought:", "t1">>,
      <<"Action:", "Wait">>,
      <<"t2">>,
      <<"Action:", "Wait", "Thought:", "t1">> }

\* replies of the reasoning service to the grounding prompt
EGAReplies ==
    { <<"Errors:", "Yes", "Explanation:", "x1">>,
      <<"Errors:", " ", "Yes", " ", "Explanation:", "x2">>,
      <<"Errors:", "No", "Explanation:", "x2">>,
      <<"Errors:", "Maybe", "Explanation:", "x1">>,
      <<"Errors:", "Yes">>,
      <<"Maybe">> }

\* errors of model.generate_content
ApiErrors == {"ResourceExhausted", "ServiceUnavailable"}

\* exceptions of the browser collaborator during dispatch
InterceptedExc == "element click intercepted"
BrowserExcs == {InterceptedExc, "no such window"}

\* exceptions of the window-handle calls: no click is involved
HandleExcs == BrowserExcs \ {InterceptedExc}

\* shutil.copy of the downloaded file fails
CopyExc == "OSError"

\* the files the site delivers, together, when a click starts a download
\* (site_files is all of them or, for a site without downloads, none), in
\* the order of sorted(os.listdir(...))
FileOrder == <<"a.pdf", "b.pdf">>
Files == {FileOrder[i] : i \in 1..Len(FileOrder)}

\* pdf_file.endswith('.pdf')
IsPdf(f) == f \in {"a.pdf", "b.pdf"}

\* [pdf_file for pdf_file in current_files
\*     if pdf_file not in download_files and pdf_file.endswith('.pdf')]
NewPdfs(current, seen) == {f \in current \ seen : IsPdf(f)}

\* current_download_file[0]
FirstFile(S) ==
    IF S = {} THEN ""
    ELSE FileOrder[CHOOSE i \in 1..Len(FileOrder) :
                       /\ FileOrder[i] \in S
                       /\ \A j \in 1..(i - 1) : FileOrder[j] \notin S]

\* ------------------------------------------------------------------ state
VARIABLES
    max_iter, error_max_reflection_iter, text_only, num_tasks,   \* args, tasks
    max_attached_imgs, trajectory,
    window_height,
    site_files,                                                  \* the web site
    pc, task_id, driver_alive, outcome, raised,                  \* control
    it, fail_obs, pdf_obs, warn_obs,                             \* LoopState
    error_exist, EGA_explanation, bot_thought,
    thought_it, main_calls, ega_calls,                           \* history of the task
    web_eles, b64_img, curr_msg, response, action,
    retry_times, attempts, last_err, slept,                      \* call_gemini_api
    messages,                                                    \* the transcript
    download_dir, download_files,                                \* downloads
    accumulate_prompt_token, accumulate_completion_token,
    current_history,
    events, ega_reply, answer, caught, scroll_by                 \* history of the iteration

cfg == <<max_iter, error_max_reflection_iter, text_only, num_tasks,
         max_attached_imgs, trajectory, window_height, site_files>>
tok == <<accumulate_prompt_token, accumulate_completion_token>>
mem == <<messages, tok, current_history>>
dl == <<download_dir, download_files>>
ctl == <<pc, task_id, driver_alive, outcome, raised>>
obs == <<fail_obs, pdf_obs, warn_obs>>
ega == <<error_exist, EGA_explanation>>
thought == <<bot_thought, thought_it>>
calls == <<main_calls, ega_calls>>
call == <<retry_times, attempts, last_err, slept>>
vars == <<cfg, ctl, it, obs, ega, thought, calls, web_eles, b64_img, curr_msg,
          response, action, call, mem, dl, events, ega_reply, answer, caught,
          scroll_by>>

NoAction == [key |-> "-", number |-> "", content |-> ""]
NoMsg == [kind |-> "none", first |-> FALSE, pdf |-> "", warn |-> "", img |-> 0,
          fail |-> "", add |-> FALSE, ega |-> <<>>]

CallPcs == {"ega_call", "main_call"}
LoopPcs == {"loop", "observe", "ega_call", "ground", "prompt", "fail_prompt",
            "main_call", "parse", "execute"}

\* ------------------------------------------------------------ pure helpers
IsLabel(t) == t \in {"[1]", "[2]"}

\* utils.extract_information: the seven grammars, tried in their listed order
extract_information(s) ==
    LET n == Len(s)
        At(kw, k) == {i \in 1..n : s[i] = kw /\ i + k <= n}
        First(S) == CHOOSE i \in S : \A j \in S : i <= j
        clicks == {i \in At("Click", 1) : IsLabel(s[i + 1])}
        types == {i \in At("Type", 2) : IsLabel(s[i + 1])}
        scrolls == {i \in At("Scroll", 2) :
                       /\ IsLabel(s[i + 1]) \/ s[i + 1] = "[WINDOW]"
                       /\ s[i + 2] \in {"up", "down"}}
        answers == At("ANSWER", 1)
    IN  IF clicks # {} THEN
            [key |-> "click", number |-> s[First(clicks) + 1], content |-> ""]
        ELSE IF types # {} THEN
            [key |-> "type", number |-> s[First(types) + 1],
             content |-> s[First(types) + 2]]
        ELSE IF scrolls # {} THEN
            [key |-> "scroll", number |-> s[First(scrolls) + 1],
             content |-> s[First(scrolls) + 2]]
        ELSE IF n >= 1 /\ s[1] = "Wait" THEN
            [key |-> "wait", number |-> "", content |-> ""]
        ELSE IF n >= 1 /\ s[1] = "GoBack" THEN
            [key |-> "goback", number |-> "", content |-> ""]
        ELSE IF n >= 1 /\ s[1] = "Google" THEN
            [key |-> "google", number |-> "", content |-> ""]
        ELSE IF answers # {} THEN
            [key |-> "answer", number |-> "", content |-> s[First(answers) + 1]]
        ELSE [key |-> "None", number |-> "", content |-> ""]

\* format_msg / format_msg_text_only: the parts of the message that vary
format_msg(i, pdf, warn, img) ==
    [kind |-> "obs", first |-> (i = 1),
     pdf |-> IF i = 1 THEN "" ELSE pdf,
     warn |-> IF i = 1 \/ pdf # "" THEN "" ELSE warn,
     img |-> img, fail |-> "", add |-> FALSE, ega |-> <<>>]

\* curr_msg[0]['text'] += "...Error Grounding Agent\n" + EGA_explanation
AppendExplanation(msg, err, expl) ==
    IF err THEN [msg EXCEPT !.add = TRUE, !.ega = expl] ELSE msg

\* curr_msg = [{"text": fail_obs}]
FailMsg(f) == [NoMsg EXCEPT !.kind = "fail", !.fail = f]

\* while it < args.max_iter
LoopCond(i, m) == i < m

\* a loop that forgets the increment
NextIt_Stuck(i) == i

\* it += 1
NextIt(i) == i + 1

\* a loop that observes again whatever fail_obs holds
SkipObserve_Never(f) == FALSE

\* the observation skipped after a dispatch failure only
SkipObserve_ExecOnly(f) == f = ExecFailMsg

\* if not fail_obs: ... else: (the failure text is the message)
SkipObserve(f) == f # ""

\* grounding from the first iteration on
ShouldGround_Always(i, act) == act

\* if it>1 and activate_EGA
ShouldGround(i, act) == i > 1 /\ act

\* one retry too many
RetryExceeded_Late(rt) == rt > MaxRetries + 1

\* retry_times > 3
RetryExceeded(rt) == rt > MaxRetries

\* assert 'Thought:' in gpt_4v_res and 'Action:' in gpt_4v_res
HasBothMarkers(r) == Contains(r, "Thought:") /\ Contains(r, "Action:")

\* an else branch that leaves error_exist as it was
GroundErrorExist_Sticky(verdict, old) ==
    IF verdict = <<"Yes">> THEN TRUE
    ELSE IF verdict = <<"No">> THEN FALSE
    ELSE old

\* the if / elif / else on the verdict segment
GroundErrorExist(verdict, old) ==
    IF verdict = <<"Yes">> THEN TRUE
    ELSE IF verdict = <<"No">> THEN FALSE
    ELSE FALSE

\* an except branch that swallows every exception
FailObsOf_Swallow(e) == ""

\* an except branch without the test on the interception text
FailObsOf_All(e) == ExecFailMsg

\* 'element click intercepted' not in str(e)
FailObsOf(e) == IF e # InterceptedExc THEN ExecFailMsg ELSE ""

\* continue instead of break
AfterObserveError_Continue == "loop"

\* where an Observation Builder exception leaves the loop: break
AfterObserveError == "quit"

Log(e) == Append(events, e)

\* ------------------------------------------------------------- transcript
\* a message of the transcript: who wrote it, whether it is the message that
\* carries init_msg, whether it has an inline_data image part
SysMsg == [role |-> "system", first |-> FALSE, img |-> FALSE]
ModelMsg == [role |-> "model", first |-> FALSE, img |-> FALSE]
UserMsg(msg) == [role |-> "user", first |-> msg.first, img |-> msg.img # 0]

\* a reply appended twice
AppendReply_Twice(msgs) == Append(Append(msgs, ModelMsg), ModelMsg)

\* a transcript seeded with the system and the init message
SeedTranscript_WithInit ==
    <<SysMsg, [role |-> "user", first |-> TRUE, img |-> FALSE]>>

\* messages = []; messages.append([{"text": SYSTEM_PROMPT}])
SeedTranscript == <<SysMsg>>

\* utils.clip_message_and_obs / clip_message_and_obs_text_only: the system
\* and the init message are kept in full; of the later messages the most
\* recent n that carry an image keep it, the older ones lose it
clip_message_and_obs(msgs, n) ==
    LET later == {i \in 1..Len(msgs) :
                     /\ msgs[i].img
                     /\ msgs[i].role # "system" /\ ~msgs[i].first}
        keep == {i \in later : Cardinality({j \in later : j > i}) < n}
    IN  [i \in 1..Len(msgs) |->
            IF i \in later \ keep THEN [msgs[i] EXCEPT !.img = FALSE]
            ELSE msgs[i]]

\* messages.append([{"text": gpt_4v_res}])
AppendReply(msgs) == Append(msgs, ModelMsg)

\* the counters grow by len(str(response)), one unit here, and are followed
\* up to TokenCap
AddTokens(t) == IF t < TokenCap THEN t + 1 ELSE TokenCap

\* error_info = f"Error: {error_exist}\nExplanation: {EGA_explanation}", the
\* part of a trajectory entry that comes from the grounding agent
error_info == [err |-> error_exist, expl |-> EGA_explanation]

\* current_history += trajectory_info (+ error_info): the number of entries
\* appended, followed up to HistCap
AddHistory(h, on) == IF on /\ h < HistCap THEN h + 1 ELSE h

\* ------------------------------------------------------------------- Init
Setup ==
    /\ max_iter \in 1..MaxIter
    /\ error_max_reflection_iter \in {0, MaxReflection}
    /\ text_only \in BOOLEAN
    /\ num_tasks \in {1, MaxTasks}
    /\ max_attached_imgs \in 1..MaxImgs
    /\ trajectory \in BOOLEAN
    /\ messages = <<>>
    /\ accumulate_prompt_token = 0 /\ accumulate_completion_token = 0
    /\ current_history = 0
    /\ download_dir = {} /\ download_files = {}
    /\ pc = "init" /\ task_id = 0 /\ driver_alive = TRUE
    /\ outcome = "none" /\ raised = NoExc
    /\ it = 0 /\ fail_obs = "" /\ pdf_obs = "" /\ warn_obs = ""
    /\ error_exist = FALSE /\ EGA_explanation = <<>> /\ bot_thought = <<>>
    /\ web_eles = 0 /\ b64_img = 0 /\ curr_msg = NoMsg
    /\ response = NoReply /\ action = NoAction
    /\ retry_times = 0 /\ attempts = 0 /\ last_err = NoExc /\ slept = 0
    /\ events = <<>> /\ ega_reply = NoReply /\ answer = "" /\ caught = NoExc
    /\ scroll_by = 0
    /\ thought_it = 0 /\ main_calls = 0 /\ ega_calls = 0

\* a site with downloads: a click may also download nothing, so the runs on a
\* site without downloads are among these
Init == Setup /\ site_files = Files /\ window_height = DefaultWindowHeight

\* ---------------------------------------------------------------- actions
\* entering call_gemini_api: retry_times = 0
EnterCall(kind) ==
    /\ pc' = kind
    /\ retry_times' = 0 /\ attempts' = 0 /\ last_err' = NoExc /\ slept' = 0

\* for task_id in range(len(tasks)): window set-up, navigation, the download
\* directory emptied, LoopState reset
TaskInit ==
    /\ pc = "init" /\ driver_alive
    /\ pc' = "loop"
    /\ it' = 0 /\ fail_obs' = "" /\ pdf_obs' = "" /\ warn_obs' = ""
    /\ error_exist' = FALSE /\ EGA_explanation' = <<>> /\ bot_thought' = <<>>
    /\ outcome' = "none" /\ events' = <<>> /\ ega_reply' = NoReply
    /\ answer' = "" /\ caught' = NoExc
    /\ messages' = SeedTranscript
    /\ accumulate_prompt_token' = 0 /\ accumulate_completion_token' = 0
    /\ current_history' = 0
    /\ download_dir' = {} /\ download_files' = {}
    /\ scroll_by' = 0
    /\ thought_it' = 0 /\ main_calls' = 0 /\ ega_calls' = 0
    /\ UNCHANGED <<cfg, task_id, driver_alive, raised, web_eles, b64_img,
                   curr_msg, response, action, call>>

\* driver_task.maximize_window() on a session that was quit raises
TaskInitDead ==
    /\ pc = "init" /\ ~driver_alive
    /\ pc' = "crashed" /\ raised' = "InvalidSessionIdException"
    /\ UNCHANGED <<cfg, dl, scroll_by, mem, task_id, driver_alive, outcome,
                   it, obs, ega, thought, calls, web_eles, b64_img, curr_msg,
                   response, action, call, events, ega_reply, answer, caught>>

\* while it < args.max_iter: it += 1; if not fail_obs
LoopEnter ==
    /\ pc = "loop" /\ LoopCond(it, max_iter)
    /\ it' = NextIt(it)
    /\ pc' = IF SkipObserve(fail_obs) THEN "fail_prompt" ELSE "observe"
    /\ events' = <<>> /\ ega_reply' = NoReply /\ scroll_by' = 0
    /\ UNCHANGED <<cfg, dl, mem, task_id, driver_alive, outcome, raised, obs,
                   ega, thought, calls, web_eles, b64_img, curr_msg, response,
                   action, call, answer, caught>>

\* the while condition is false
LoopExit ==
    /\ pc = "loop" /\ ~LoopCond(it, max_iter)
    /\ pc' = "quit" /\ outcome' = "exhausted"
    /\ UNCHANGED <<cfg, dl, scroll_by, mem, task_id, driver_alive, raised, it,
                   obs, ega, thought, calls, web_eles, b64_img, curr_msg,
                   response, action, call, events, ega_reply, answer, caught>>

\* Observation Builder and screenshot succeed; the grounding call is entered
\* when it > 1 and activate_EGA
ObserveOk ==
    /\ pc = "observe"
    /\ web_eles' = it /\ b64_img' = it
    /\ IF ShouldGround(it, activate_EGA)
       THEN /\ EnterCall("ega_call")
            /\ events' = events \o <<"observe", "ega_call">>
            /\ ega_calls' = ega_calls + 1
       ELSE /\ pc' = "prompt"
            /\ events' = Log("observe")
            /\ UNCHANGED <<call, ega_calls>>
    /\ UNCHANGED <<cfg, dl, scroll_by, mem, task_id, driver_alive, outcome,
                   raised, it, obs, ega, thought, main_calls, curr_msg,
                   response, action, ega_reply, answer, caught>>

\* get_web_element_rect / get_webarena_accessibility_tree raises: break
ObserveFail ==
    /\ pc = "observe"
    /\ pc' = AfterObserveError /\ outcome' = "observe_error"
    /\ events' = Log("observe")
    /\ UNCHANGED <<cfg, dl, scroll_by, mem, task_id, driver_alive, raised, it,
                   obs, ega, thought, calls, web_eles, b64_img, curr_msg,
                   response, action, call, ega_reply, answer, caught>>

\* call_gemini_api: an attempt of model.generate_content returns; the frame
\* of the call (retry_times) is gone once `return response` ran.  The caller
\* adds to the token counters and, for the main call, appends the reply to
\* the transcript.
CallSucceed ==
    /\ pc \in CallPcs
    /\ \E r \in (IF pc = "ega_call" THEN EGAReplies ELSE MainReplies) :
           response' = r
    /\ pc' = IF pc = "ega_call" THEN "ground" ELSE "parse"
    /\ retry_times' = 0 /\ attempts' = 0 /\ last_err' = NoExc /\ slept' = 0
    /\ accumulate_prompt_token' = AddTokens(accumulate_prompt_token)
    /\ accumulate_completion_token' = AddTokens(accumulate_completion_token)
    /\ messages' = IF pc = "main_call" THEN AppendReply(messages)
                   ELSE messages
    /\ UNCHANGED <<cfg, dl, scroll_by, current_history, task_id, driver_alive,
                   outcome, raised, it, obs, ega, thought, calls, web_eles,
                   b64_img, curr_msg, action, events, ega_reply, answer,
                   caught>>

\* call_gemini_api: an attempt raises; retry after a sleep or re-raise
CallFail ==
    /\ pc \in CallPcs
    /\ \E e \in ApiErrors :
        /\ last_err' = e
        /\ attempts' = attempts + 1
        /\ retry_times' = retry_times + 1
        /\ IF RetryExceeded(retry_times + 1)
           THEN pc' = "crashed" /\ raised' = e /\ UNCHANGED slept
           ELSE slept' = slept + RetryDelay /\ UNCHANGED <<pc, raised>>
    /\ UNCHANGED <<cfg, dl, scroll_by, mem, task_id, driver_alive, outcome,
                   it, obs, ega, thought, calls, web_eles, b64_img, curr_msg,
                   response, action, events, ega_reply, answer, caught>>

\* response.text of the grounding call is split on the markers; the verdict
\* is segment [1], the explanation segment [2]
Ground ==
    /\ pc = "ground"
    /\ LET parts == ReSplit(response)
           err == GroundErrorExist(Strip(PyAt(parts, 1)), error_exist)
       IN  /\ HasIndex(parts, 1)
           /\ err => HasIndex(parts, 2)
           /\ error_exist' = err
           /\ EGA_explanation' =
                  IF err THEN Strip(PyAt(parts, 2)) ELSE EGA_explanation
    /\ pc' = "prompt"
    /\ ega_reply' = response
    /\ response' = NoReply
    /\ UNCHANGED <<cfg, dl, scroll_by, mem, task_id, driver_alive, outcome,
                   raised, it, obs, thought, calls, web_eles, b64_img,
                   curr_msg, action, call, events, answer, caught>>

\* re.split(pattern, gpt_4v_res)[1] or [2] does not exist: IndexError, which
\* nothing in main catches
GroundRaise ==
    /\ pc = "ground"
    /\ LET parts == ReSplit(response)
       IN  \/ ~HasIndex(parts, 1)
           \/ /\ HasIndex(parts, 1)
              /\ GroundErrorExist(Strip(PyAt(parts, 1)), error_exist)
              /\ ~HasIndex(parts, 2)
    /\ error_exist' =
           IF HasIndex(ReSplit(response), 1) THEN TRUE ELSE error_exist
    /\ pc' = "crashed" /\ raised' = "IndexError"
    /\ ega_reply' = response
    /\ UNCHANGED <<cfg, dl, scroll_by, mem, task_id, driver_alive, outcome,
                   it, obs, EGA_explanation, thought, calls, web_eles,
                   b64_img, curr_msg, response, action, call, events, answer,
                   caught>>

\* format msg, append the explanation if error_exist, messages.append, clip;
\* then the main call is entered
Prompt ==
    /\ pc = "prompt"
    /\ curr_msg' = AppendExplanation(
                       format_msg(it, pdf_obs, warn_obs,
                                  IF text_only THEN 0 ELSE b64_img),
                       error_exist, EGA_explanation)
    /\ messages' = clip_message_and_obs(Append(messages, UserMsg(curr_msg')),
                                        max_attached_imgs)
    /\ EnterCall("main_call")
    /\ main_calls' = main_calls + 1
    /\ events' = Log("main_call")
    /\ UNCHANGED <<cfg, dl, scroll_by, tok, current_history, task_id,
                   driver_alive, outcome, raised, it, obs, ega, thought,
                   ega_calls, web_eles, b64_img, response, action, ega_reply,
                   answer, caught>>

\* fail_obs is set: the message is the failure text alone; messages.append,
\* clip, and the main call is entered
PromptFail ==
    /\ pc = "fail_prompt"
    /\ curr_msg' = FailMsg(fail_obs)
    /\ messages' = clip_message_and_obs(Append(messages, UserMsg(curr_msg')),
                                        max_attached_imgs)
    /\ EnterCall("main_call")
    /\ main_calls' = main_calls + 1
    /\ events' = Log("main_call")
    /\ UNCHANGED <<cfg, dl, scroll_by, tok, current_history, task_id,
                   driver_alive, outcome, raised, it, obs, ega, thought,
                   ega_calls, web_eles, b64_img, response, action, ega_reply,
                   answer, caught>>

\* The values in flight (the reply, the message it answers, the grounding
\* reply behind that message, the exception behind a failure message) are
\* dropped once the reply is parsed: the code overwrites each before it reads
\* it again.

\* the assert on the markers fails: fail_obs = "Format ERROR..."; continue
ParseFormatError ==
    /\ pc = "parse" /\ ~HasBothMarkers(response)
    /\ fail_obs' = FormatErrorMsg
    /\ pc' = "loop"
    /\ response' = NoReply /\ caught' = NoExc
    /\ curr_msg' = NoMsg /\ ega_reply' = NoReply
    /\ UNCHANGED <<cfg, dl, scroll_by, mem, task_id, driver_alive, outcome,
                   raised, it, pdf_obs, warn_obs, ega, thought, calls,
                   web_eles, b64_img, action, call, events, answer>>

\* thought, calls, chosen_action = segments [1], [2]; the trajectory entry;
\* extract_information
ParseOk ==
    /\ pc = "parse" /\ HasBothMarkers(response)
    /\ LET parts == ReSplit(response)
       IN  /\ bot_thought' = Strip(PyAt(parts, 1))
           /\ action' = extract_information(Strip(PyAt(parts, 2)))
    /\ pc' = "execute"
    /\ response' = NoReply /\ caught' = NoExc
    /\ curr_msg' = NoMsg /\ ega_reply' = NoReply
    /\ thought_it' = it
    /\ current_history' =
           AddHistory(current_history, trajectory)
    /\ UNCHANGED <<cfg, dl, scroll_by, messages, tok, calls, task_id,
                   driver_alive, outcome, raised, it, obs, ega, web_eles,
                   b64_img, call, events, answer>>

\* the end of one pass of the try / except around the dispatch: fail_obs from
\* the exception (if any), the side observations, back to the while test
Dispatched(e, pdf, warn, evs) ==
    /\ fail_obs' = IF e = NoExc THEN "" ELSE FailObsOf(e)
    /\ pdf_obs' = pdf /\ warn_obs' = warn
    /\ caught' = e
    /\ events' = events \o <<"window_handle">> \o evs
    /\ pc' = "loop"
    /\ action' = NoAction
    /\ UNCHANGED <<cfg, mem, task_id, driver_alive, outcome, raised, it, ega,
                   thought, calls, web_eles, b64_img, curr_msg, response,
                   call, ega_reply, answer>>

\* a dispatch that neither looks at the download directory nor scrolls the
\* window
EndDispatch(e, pdf, warn, evs) ==
    /\ Dispatched(e, pdf, warn, evs)
    /\ UNCHANGED <<dl, scroll_by>>

\* driver_task.current_window_handle / switch_to.window raises, whatever the
\* action key is
ExecHandleFail ==
    /\ pc = "execute"
    /\ \E e \in HandleExcs : EndDispatch(e, "", "", <<>>)

\* click: element look-up and exec_action_click (either may raise); the click
\* may make the site's files appear in the download directory; then the
\* download check:
\* if the listing changed, the first new pdf of the sorted listing is
\* retrieved (logged as an event) and copied, and the listing is remembered
\* unless shutil.copy raised after pdf_obs was assigned
ExecClick ==
    /\ pc = "execute" /\ action.key = "click"
    /\ UNCHANGED scroll_by
    /\ \/ /\ \E e \in BrowserExcs : Dispatched(e, "", "", <<"click">>)
          /\ UNCHANGED dl
       \/ \E new \in {{}, site_files \ download_dir} :
            LET current_files == download_dir \cup new
                current_download_file == NewPdfs(current_files, download_files)
                pdf_file == FirstFile(current_download_file)
            IN  /\ download_dir' = current_files
                /\ IF current_files = download_files
                   THEN /\ Dispatched(NoExc, "", "", <<"click">>)
                        /\ UNCHANGED download_files
                   ELSE IF current_download_file = {}
                   THEN /\ Dispatched(NoExc, "", "", <<"click">>)
                        /\ download_files' = current_files
                   ELSE \/ /\ Dispatched(NoExc, PdfPrefix, "",
                                         <<"click", pdf_file>>)
                           /\ download_files' = current_files
                        \/ /\ Dispatched(CopyExc, "pdf answer", "",
                                         <<"click", pdf_file>>)
                           /\ UNCHANGED download_files

\* wait: time.sleep(5)
ExecWait ==
    /\ pc = "execute" /\ action.key = "wait"
    /\ EndDispatch(NoExc, "", "", <<"sleep">>)

\* an action chain without the submit key
TypeKeys_NoEnter == <<"send_content">>

\* actions.send_keys(type_content); actions.send_keys(Keys.ENTER);
\* actions.perform()
TypeKeys == <<"send_content", "send_enter">>

\* type: element look-up and exec_action_type: the profile test (warn), the
\* best-effort clear (its failure is swallowed), the action chain; a browser
\* call outside the inner try blocks may raise
ExecType ==
    /\ pc = "execute" /\ action.key = "type"
    /\ \/ \E e \in BrowserExcs : EndDispatch(e, "", "", <<"type">>)
       \/ \E warn \in BOOLEAN, clear \in {"clear", "clear_failed"} :
              EndDispatch(NoExc, "", IF warn THEN TypeWarnMsg ELSE "",
                          <<"type", clear>> \o TypeKeys)

\* window.scrollBy(0, {args.window_height*2//3}) when the direction is
\* 'down', window.scrollBy(0, {-args.window_height*2//3}) otherwise; the
\* unary minus binds before * and //, and // rounds down
ScrollDelta(h, content) ==
    IF content = "down" THEN (h * 2) \div 3 ELSE ((-h) * 2) \div 3

\* scroll: exec_action_scroll, on the window or on an element
ExecScroll ==
    /\ pc = "execute" /\ action.key = "scroll"
    /\ UNCHANGED dl
    /\ \/ /\ \E e \in BrowserExcs : Dispatched(e, "", "", <<"scroll">>)
          /\ UNCHANGED scroll_by
       \/ /\ Dispatched(NoExc, "", "", <<"scroll">>)
          /\ scroll_by' = IF action.number = "[WINDOW]"
                          THEN ScrollDelta(window_height, action.content)
                          ELSE 0

\* goback: driver_task.back()
ExecGoBack ==
    /\ pc = "execute" /\ action.key = "goback"
    /\ \E e \in BrowserExcs \cup {NoExc} : EndDispatch(e, "", "", <<"back">>)

\* google: driver_task.get('https://www.google.com/')
ExecGoogle ==
    /\ pc = "execute" /\ action.key = "google"
    /\ \E e \in BrowserExcs \cup {NoExc} : EndDispatch(e, "", "", <<"get">>)

\* answer: log info['content'], break
ExecAnswer ==
    /\ pc = "execute" /\ action.key = "answer"
    /\ answer' = action.content
    /\ outcome' = "answered"
    /\ pc' = "quit"
    /\ fail_obs' = "" /\ pdf_obs' = "" /\ warn_obs' = ""
    /\ events' = Log("window_handle")
    /\ action' = NoAction
    /\ UNCHANGED <<cfg, dl, scroll_by, mem, task_id, driver_alive, raised, it,
                   ega, thought, calls, web_eles, b64_img, curr_msg, response,
                   call, ega_reply, caught>>

\* a dispatch without the final else: an unknown key passes silently
ExecUnsupported_Skip ==
    /\ pc = "execute"
    /\ action.key \notin {"click", "wait", "type", "scroll", "goback",
                          "google", "answer"}
    /\ EndDispatch(NoExc, "", "", <<>>)

\* else: raise NotImplementedError, caught by the except of the dispatch
ExecUnsupported ==
    /\ pc = "execute"
    /\ action.key \notin {"click", "wait", "type", "scroll", "goback",
                          "google", "answer"}
    /\ EndDispatch("NotImplementedError", "", "", <<>>)

\* driver_task.quit() at the end of the task, then the next task
Quit ==
    /\ pc = "quit"
    /\ driver_alive' = FALSE
    /\ task_id' = task_id + 1
    /\ pc' = IF task_id + 1 < num_tasks THEN "init" ELSE "done"
    /\ UNCHANGED <<cfg, dl, scroll_by, mem, outcome, raised, it, obs, ega,
                   thought, calls, web_eles, b64_img, curr_msg, response,
                   action, call, events, ega_reply, answer, caught>>

Next ==
    \/ TaskInit \/ TaskInitDead
    \/ LoopEnter \/ LoopExit
    \/ ObserveOk \/ ObserveFail
    \/ CallSucceed \/ CallFail
    \/ Ground \/ GroundRaise
    \/ Prompt \/ PromptFail
    \/ ParseFormatError \/ ParseOk
    \/ ExecHandleFail \/ ExecClick \/ ExecWait \/ ExecType \/ ExecScroll
    \/ ExecGoBack \/ ExecGoogle \/ ExecAnswer \/ ExecUnsupported
    \/ Quit

Spec == Init /\ [][Next]_vars

\* main runs on one thread and every step of it is taken once enabled.
\* Termination is checked for the largest iteration budget and task list of
\* the bounds, in text-only mode (no image in the transcript, so clipping
\* has nothing to rewrite), without trajectory accumulation, on a site
\* without downloads.
FairInit ==
    /\ Setup
    /\ max_iter = MaxIter /\ num_tasks = MaxTasks /\ text_only = TRUE
    /\ max_attached_imgs = MaxImgs /\ trajectory = FALSE
    /\ site_files = {} /\ window_height = DefaultWindowHeight
    /\ error_max_reflection_iter \in {0, MaxReflection}

FairSpec == FairInit /\ [][Next]_vars /\ WF_vars(Next)

\* call_gemini_api does not read the iteration budget: two iterations reach
\* both of its call sites (the grounding call needs it > 1).
RetryInit ==
    /\ Setup
    /\ max_iter = 2 /\ num_tasks = MaxTasks /\ text_only = FALSE
    /\ max_attached_imgs = MaxImgs /\ trajectory = FALSE
    /\ site_files = {} /\ window_height = DefaultWindowHeight
    /\ error_max_reflection_iter = 0

RetrySpec == RetryInit /\ [][Next]_vars /\ WF_vars(Next)

\* exec_action_scroll reads args.window_height and the parsed direction
\* only: every height up to MaxHeight, two iterations, text-only mode.
ScrollInit ==
    /\ Setup
    /\ window_height \in 1..MaxHeight
    /\ max_iter = 2 /\ num_tasks = MaxTasks /\ text_only = TRUE
    /\ max_attached_imgs = MaxImgs /\ trajectory = FALSE
    /\ site_files = {}
    /\ error_max_reflection_iter = 0

ScrollSpec == ScrollInit /\ [][Next]_vars

TypeOK ==
    /\ pc \in LoopPcs \cup {"init", "quit", "done", "crashed"}
    /\ it \in 0..(MaxIter + 1)
    /\ fail_obs \in {"", FormatErrorMsg, ExecFailMsg}
    /\ retry_times \in 0..(MaxRetries + 1)

\* ================================================================= claims
Occurs(e) == Cardinality({i \in 1..Len(events) : events[i] = e})

\* C1: the control loop of every task terminates (main reaches its end or
\* an exception leaves it); `it` never exceeds
\* max_iter * (1 + error_max_reflection_iter); every pass of the while loop
\* raises `it` by exactly one, and nothing inside a pass (FormatError and
\* dispatch failure included) changes it.
C1_LoopTerminates ==
    /\ [](it <= max_iter * (1 + error_max_reflection_iter))
    /\ [][pc = "loop" /\ pc' \in LoopPcs \ {"loop"} => it' = it + 1]_vars
    /\ [][(pc \in LoopPcs \ {"loop"}) => (it' = it)]_vars
    /\ <>(pc \in {"done", "crashed"})

C1_Witness ==
    /\ pc = "quit" /\ outcome = "exhausted"
    /\ max_iter >= 2 /\ it = max_iter
    /\ fail_obs = FormatErrorMsg

\* C2: when the parsed action is Answer, the loop is left in that same
\* iteration with the answer content as payload.
C2_AnswerLeavesLoop ==
    [][pc = "execute" /\ action.key = "answer"
         => /\ pc' = "quit" /\ outcome' = "answered"
            /\ answer' = action.content /\ (it' = it)]_vars

\* C3: a reply without 'Thought:' or without 'Action:' parses and dispatches
\* no action and sets the failure observation; the next iteration makes no
\* observation and no grounding call, sends the failure text alone, and the
\* element map stays the one of the last observation.
C3_FormatError ==
    /\ [][pc = "parse"
            /\ ~(Contains(response, "Thought:") /\ Contains(response, "Action:"))
          => /\ pc' = "loop" /\ fail_obs' = FormatErrorMsg
             /\ action' = NoAction /\ events' = events]_vars
    /\ [](pc = "loop" /\ fail_obs = FormatErrorMsg
            => action = NoAction /\ Occurs("window_handle") = 0)
    /\ [](pc = "main_call" /\ fail_obs = FormatErrorMsg
            => /\ curr_msg = FailMsg(FormatErrorMsg)
               /\ Occurs("observe") = 0 /\ Occurs("ega_call") = 0)
    /\ [][fail_obs = FormatErrorMsg => web_eles' = web_eles]_vars

C3_Witness ==
    /\ pc = "main_call" /\ fail_obs = FormatErrorMsg
    /\ curr_msg = FailMsg(FormatErrorMsg)
    /\ it >= 2 /\ web_eles = it - 1

\* C4: a reasoning-service call that still fails after its retries ends the
\* current Task only; it is not a process crash.
C4_FatalEndsTaskOnly == ~(pc = "crashed" /\ raised \in ApiErrors)

\* C5: when the Observation Builder fails the Task ends in that iteration:
\* the loop is left at once, the observation is not retried, and no
\* reasoning-service call, grounding call or dispatch follows.
C5_ObserveFailEndsTask ==
    /\ [][pc = "observe" /\ outcome' = "observe_error" => pc' = "quit"]_vars
    /\ [](outcome = "observe_error" => events = <<"observe">>)
    /\ [][outcome = "observe_error"
            => events' = events /\ it' = it /\ pc' \notin LoopPcs]_vars

C5_Witness == outcome = "observe_error" /\ pc = "quit" /\ it >= 2

\* C6: call_gemini_api makes at most 4 attempts, each failed attempt but the
\* last followed by the fixed delay; the first attempt that succeeds ends
\* the call with its response; past the retry budget the last error is
\* raised; the call always ends.
C6_BoundedRetry ==
    /\ [](attempts <= 4)
    /\ [](pc \in CallPcs
            => /\ attempts = retry_times /\ response = NoReply
               /\ slept = 5 * retry_times)
    /\ [][(pc \in CallPcs) /\ response' # NoReply
            => pc' \in {"ground", "parse"}]_vars
    /\ [](raised \in ApiErrors
            => attempts = 4 /\ raised = last_err /\ slept = 5 * 3)
    /\ []<>(pc \notin CallPcs)

C6_Witness == pc = "crashed" /\ raised \in ApiErrors /\ attempts = 4

\* C7: whatever the grounding reply is, the iteration goes on to PROMPT; a
\* verdict other than 'Yes' or 'No' never raises.
C7_GroundingNeverRaises == [][pc = "ground" => pc' = "prompt"]_vars

\* C8: the grounding agent is called only when it >= 2 and grounding is
\* enabled, and at most once per iteration.
C8_GroundingFromSecondIter ==
    /\ Occurs("ega_call") <= 1
    /\ Occurs("ega_call") > 0 \/ pc \in {"ega_call", "ground"}
         => it >= 2 /\ activate_EGA

C8_Witness == pc = "ega_call" /\ it = 2 /\ Occurs("ega_call") = 1

\* C9: the explanation is part of the iteration's message exactly when the
\* grounding reply of that same iteration has the verdict 'Yes', and it is
\* then the explanation of that reply.
C9_ExplanationIsFresh ==
    pc = "main_call" =>
        LET parts == ReSplit(ega_reply)
            yes == /\ ega_reply # NoReply
                   /\ HasIndex(parts, 1)
                   /\ Strip(PyAt(parts, 1)) = <<"Yes">>
        IN  /\ curr_msg.add <=> yes
            /\ curr_msg.add => curr_msg.ega = Strip(PyAt(parts, 2))

C9_Witness ==
    /\ pc = "main_call" /\ curr_msg.kind = "obs"
    /\ EGA_explanation # <<>> /\ ~curr_msg.add

\* C10: a browser exception during dispatch that is not the interception
\* error is caught in the iteration, sets a non-empty failure observation,
\* the loop goes on while budget remains, and the failure text alone is the
\* next message to the reasoning service.
C10_DispatchFailureRecovered ==
    /\ [][pc = "execute" => pc' \in {"loop", "quit"} /\ raised' = NoExc]_vars
    /\ [][pc = "execute" /\ caught' \in BrowserExcs \ {InterceptedExc}
            => fail_obs' = ExecFailMsg /\ fail_obs' # "" /\ pc' = "loop"]_vars
    /\ [][pc = "loop" /\ caught \in BrowserExcs \ {InterceptedExc}
            /\ it < max_iter => pc' = "fail_prompt"]_vars
    /\ [](pc = "main_call" /\ caught \in BrowserExcs \ {InterceptedExc}
            => curr_msg = FailMsg(ExecFailMsg))

C10_Witness ==
    /\ pc = "main_call" /\ caught = "no such window"
    /\ curr_msg = FailMsg(ExecFailMsg)

\* C11: a dispatch that ends with the interception error leaves fail_obs
\* empty and goes back to the while test; the next iteration observes the
\* page again and sends an observation message built in that iteration, not
\* a failure text.
C11_InterceptionIgnored ==
    /\ [][(pc = "execute" /\ caught' = InterceptedExc)
            => (fail_obs' = "" /\ pc' = "loop" /\ raised' = NoExc)]_vars
    /\ [][(pc = "loop" /\ caught = InterceptedExc /\ it < max_iter)
            => (pc' = "observe")]_vars
    /\ [](pc = "main_call" /\ caught = InterceptedExc
            => /\ curr_msg.kind = "obs" /\ curr_msg.fail = ""
               /\ Occurs("observe") = 1 /\ web_eles = it)

C11_Witness ==
    /\ pc = "main_call" /\ caught = InterceptedExc
    /\ curr_msg.kind = "obs" /\ web_eles = it /\ it >= 2

\* C12: an action key outside the seven known ones executes no click, type,
\* scroll or navigation, sets the failure observation, and the loop goes on
\* with the failure text as the next message.
C12_UnsupportedAction ==
    /\ [][(pc = "execute"
             /\ action.key \notin {"click", "wait", "type", "scroll",
                                   "goback", "google", "answer"})
            => /\ events' = Append(events, "window_handle")
               /\ fail_obs' = ExecFailMsg
               /\ pc' = "loop" /\ raised' = NoExc]_vars
    /\ [][(pc = "loop" /\ caught = "NotImplementedError" /\ it < max_iter)
            => (pc' = "fail_prompt")]_vars
    /\ [](pc = "main_call" /\ caught = "NotImplementedError"
            => curr_msg = FailMsg(ExecFailMsg))

C12_Witness ==
    /\ pc = "main_call" /\ caught = "NotImplementedError"
    /\ curr_msg = FailMsg(ExecFailMsg)

\* the text of reply r that follows the first occurrence of marker m, up to
\* the next marker word
RECURSIVE TextUpToMarker(_)
TextUpToMarker(s) ==
    IF s = <<>> \/ Head(s) \in Markers THEN <<>>
    ELSE <<Head(s)>> \o TextUpToMarker(Tail(s))

TextAfter(r, m) ==
    LET i == CHOOSE k \in 1..Len(r) :
                 r[k] = m /\ \A j \in 1..(k - 1) : r[j] # m
    IN  TextUpToMarker(SubSeq(r, i + 1, Len(r)))

\* C13: for every reply holding both markers, the thought is the text after
\* 'Thought:' and the action handed to the parser is the text after
\* 'Action:', in whatever order the markers come.
C13_MarkersByName ==
    [][(pc = "parse" /\ Contains(response, "Thought:")
          /\ Contains(response, "Action:"))
         => /\ bot_thought' = Strip(TextAfter(response, "Thought:"))
            /\ action' =
                 extract_information(Strip(TextAfter(response, "Action:")))]_vars

\* C14: when the budget runs out without an Answer and reflection restarts
\* are allowed (error_max_reflection_iter > 0), the loop is entered again
\* instead of ending the Task.
C14_ReflectionRestart ==
    [][(pc = "loop" /\ ~(it < max_iter) /\ error_max_reflection_iter > 0)
         => (pc' \in LoopPcs)]_vars

\* C15: on every terminal outcome of a Task (Answer, exhaustion, observation
\* failure, reasoning-service failure past the retries) the browser session
\* has been released once the run has ended.
C15_SessionReleased ==
    (pc = "done" \/ (pc = "crashed" /\ raised \in ApiErrors)) => ~driver_alive

\* C17: dispatching Wait sleeps and makes no browser call; afterwards
\* fail_obs is empty and the loop goes on.
C17_WaitTouchesNothing ==
    [][(pc = "execute" /\ action.key = "wait")
         => /\ events' = Append(events, "sleep")
            /\ fail_obs' = "" /\ pc' = "loop"]_vars

\* C19: OBSERVE is skipped only after a FormatError, so an action that names
\* a label is dispatched against the element map of its own iteration unless
\* the iteration follows a FormatError.
C19_ObserveAfterExecFailure ==
    /\ pc = "fail_prompt" => fail_obs = FormatErrorMsg
    /\ (pc = "execute" /\ action.key \in {"click", "type", "scroll"}
          /\ fail_obs # FormatErrorMsg) => web_eles = it

\* C20: a warning or pdf observation that is pending when the reasoning
\* service is called is part of the message of that call, so none is cleared
\* (which only happens after a call) without having been sent.
C20_SideObservationsSent ==
    pc = "main_call" =>
        /\ pdf_obs # "" => curr_msg.pdf = pdf_obs
        /\ warn_obs # "" => curr_msg.warn = warn_obs

\* number of messages of the transcript that carry an image
ImageCount == Cardinality({i \in 1..Len(messages) : messages[i].img})

\* C16: at every main reasoning-service call the clipped transcript holds at
\* most max_attached_imgs messages with an image, and its first two messages
\* are the system message and the init message as they were appended.
C16_ClipBound ==
    pc = "main_call" =>
        /\ ImageCount <= max_attached_imgs
        /\ Len(messages) >= 2
        /\ messages[1] = SysMsg
        /\ messages[2] = [role |-> "user", first |-> TRUE, img |-> ~text_only]

C21_NoPdfSkipped ==
    [][(pc = "execute" /\ action.key = "click" /\ caught' = NoExc)
         => LET new == NewPdfs(download_dir', download_files)
            IN  /\ new # {} => pdf_obs' = PdfPrefix
                /\ \A f \in new :
                      \/ events' = events \o <<"window_handle", "click", f>>
                      \/ f \notin download_files']_vars

\* the events logged by the dispatch step that is being taken
Dispatch_events == SubSeq(events', Len(events) + 1, Len(events'))

\* C22: a Type dispatch that sends the content sends the ENTER key right
\* after it; an element outside the text-input profile only sets the
\* warning (the keys are sent and fail_obs stays empty); a failed clear does
\* not stop the typing.
C22_TypeAlwaysSubmits ==
    [][(pc = "execute" /\ action.key = "type")
         => LET evs == Dispatch_events
                sent == \E i \in 1..Len(evs) : evs[i] = "send_content"
                submitted == \E i \in 1..(Len(evs) - 1) :
                                 evs[i] = "send_content"
                                 /\ evs[i + 1] = "send_enter"
            IN  /\ sent => submitted
                /\ warn_obs' # "" => (submitted /\ fail_obs' = "")
                /\ (\E i \in 1..Len(evs) : evs[i] = "clear_failed")
                      => (submitted /\ fail_obs' = "")]_vars

C22_Witness ==
    /\ pc = "loop" /\ warn_obs = TypeWarnMsg /\ fail_obs = ""
    /\ events = <<"observe", "main_call", "window_handle", "type",
                  "clear_failed", "send_content", "send_enter">>

\* C23: a Scroll of the window moves by window_height*2//3 when the
\* direction is 'down' and by exactly the negation of that otherwise.
C23_ScrollSymmetric ==
    [][(pc = "execute" /\ action.key = "scroll"
          /\ action.number = "[WINDOW]" /\ caught' = NoExc)
         => scroll_by' = IF action.content = "down"
                         THEN (window_height * 2) \div 3
                         ELSE -((window_height * 2) \div 3)]_vars

\* C24: while the Error Grounding Agent is being called in iteration k, the
\* Thought it was given was parsed from the reply of iteration k - 1 (so it
\* is not the initial value) and the image is the screenshot of iteration k.
C24_GroundingInputs ==
    pc = "ega_call" =>
        /\ thought_it = it - 1 /\ thought_it >= 1
        /\ b64_img = it

C24_Witness ==
    /\ pc = "ega_call" /\ it = 3 /\ thought_it = 2 /\ b64_img = 3
    /\ ega_calls = 1

\* C25: the INIT of every Task runs on a live browser session.
C25_InitOnLiveSession == pc = "init" => driver_alive

\* C26: per Task there are at most max_iter main calls, one for each
\* iteration that reached PROMPT, and at most max_iter - 1 grounding calls;
\* after the system message the transcript alternates user and model
\* messages, one pair per iteration whose main call succeeded.
C26_CallCounts ==
    /\ main_calls <= max_iter /\ ega_calls <= max_iter - 1
    /\ main_calls <= it /\ Occurs("main_call") <= 1
    /\ pc \in {"main_call", "parse", "execute"} => main_calls = it
    /\ pc = "main_call"
         => Len(messages) = 2 * it /\ messages[Len(messages)].role = "user"
    /\ pc \in {"parse", "execute"}
         => /\ Len(messages) = 2 * it + 1
            /\ messages[Len(messages)].role = "model"
            /\ messages[Len(messages) - 1].role = "user"
    /\ \A i \in 2..Len(messages) :
          messages[i].role = IF i % 2 = 0 THEN "user" ELSE "model"

C26_Witness ==
    /\ pc = "execute" /\ max_iter = MaxIter /\ it = max_iter
    /\ main_calls = max_iter /\ ega_calls = max_iter - 1
    /\ Len(messages) = 2 * max_iter + 1

\* C27: the trajectory history changes only when accumulation is enabled,
\* by one entry per parsed reply; the verdict and the explanation that go
\* into the entry come from the grounding reply of the same iteration, so a
\* positive verdict or a non-empty explanation is never one left over from
\* an earlier iteration.
C27_TrajectoryFresh ==
    /\ [][(current_history' # current_history)
            => /\ trajectory /\ pc = "parse" /\ pc' = "execute"
               /\ current_history' = current_history + 1]_vars
    /\ [][(pc = "parse" /\ pc' = "execute" /\ trajectory
             /\ (error_info.err \/ error_info.expl # <<>>))
            => LET parts == ReSplit(ega_reply)
               IN  /\ ega_reply # NoReply
                   /\ error_info.err <=> Strip(PyAt(parts, 1)) = <<"Yes">>
                   /\ HasIndex(parts, 2)
                   /\ error_info.expl = Strip(PyAt(parts, 2))]_vars

====
